---- MODULE Spec2Model ----
(***************************************************************************)
(* The supervision policy of inx-chronicle's Launcher actor                *)
(* (bin/inx-chronicle/src/main.rs): the Launcher spawns a Broker, an       *)
(* InxListener and an ApiWorker under supervision and reacts to the Report *)
(* each of them leaves in its mailbox when it terminates.                  *)
(*                                                                         *)
(* The actor runtime itself (chronicle::runtime: mailbox, supervised       *)
(* spawn, Report delivery, delay, shutdown) is a library crate; it is      *)
(* modelled after its description in the specification, sections 3 to 5.   *)
(***************************************************************************)
EXTENDS Integers, Sequences, FiniteSets, TLC

VARIABLES
    lpc,          \* where the Launcher's task is: init, idle, handling, sleeping, building, terminated
    event,        \* the Report the Launcher's handler holds (NoEvent outside a handler)
    waited,       \* seconds elapsed of the handler's tokio::time::sleep
    mailbox,      \* the Launcher's mailbox: the sequence of Reports not yet taken
    actors,       \* the child actors, by address
    broker_addr,  \* Launcher::State.1, the stored Addr<Broker> (0 before init)
    config,       \* Launcher::State.0, of which the model keeps config.inx
    shutdown,     \* cancellation of the Launcher's scope has been requested
    interrupted,  \* the ctrl_c task of startup has fired
    exited,       \* Runtime::launch has returned: the root scope is drained
    lastEffect,   \* history: what the step just taken did, when it completed a handler
    number,       \* merkle_hasher: the argument n of largest_power_of_two
    power,        \* merkle_hasher: what largest_power_of_two(n) returned
    data,         \* merkle_hasher: the argument of MerkleHasher::hash
    root,         \* merkle_hasher: what MerkleHasher::hash(data) returned
    bstatus,      \* broker: the Broker actors by address: unused, running, terminated
    inbox,        \* broker: the mailbox of each Broker
    boutcome,     \* broker: the outcome each Broker terminated with
    db,           \* broker: the records upserted into the database
    current,      \* broker: the address of the latest Broker
    holds,        \* broker: the Addr<Broker> each sender holds
    sent,         \* broker: how many events each sender has sent
    handled,      \* broker, history: the last send of each sender that each Broker has handled
    lastCall,     \* broker, history: the send or the handler call just made and its result
    outputs,      \* outputs_claiming: the documents of the OutputCollection
    claimed       \* outputs_claiming: the analytics last obtained of the collection as it is

launcherVars == <<lpc, event, waited, mailbox, actors, broker_addr, config, shutdown,
                  interrupted, exited, lastEffect>>

\* the state of the parts specified on their own further down
merkleVars == <<number, power, data, root>>

brokerVars == <<bstatus, inbox, boutcome, db, current, holds, sent, handled, lastCall>>

ledgerVars == <<outputs, claimed>>

nonLauncherVars == <<merkleVars, brokerVars, ledgerVars>>

nonMerkleVars == <<launcherVars, brokerVars, ledgerVars>>

nonBrokerVars == <<launcherVars, merkleVars, ledgerVars>>

nonLedgerVars == <<launcherVars, merkleVars, brokerVars>>

vars == <<launcherVars, nonLauncherVars>>

----------------------------------------------------------------------------
(* Bounds *)

\* addresses available to the actors of each role; an address is used again
\* only when nothing holds it any more
MaxBrokers == 3
MaxInxListeners == 2
MaxApiWorkers == 2

MaxActors == MaxBrokers + MaxInxListeners + MaxApiWorkers

Ids == 1..MaxActors

RoleIds(role) ==
    CASE role = "Broker" -> 1..MaxBrokers
      [] role = "InxListener" -> (MaxBrokers + 1)..(MaxBrokers + MaxInxListeners)
      [] role = "ApiWorker" -> (MaxBrokers + MaxInxListeners + 1)..MaxActors

----------------------------------------------------------------------------
(* Values *)

inx_connection_retry_interval == 5

\* the values of config.inx the Launcher may have read
InxConfigs == {"inx_a"}

\* the message of the one transport failure the Launcher retries
TransportErrorMessage == "transport error"

TransportMessages == {TransportErrorMessage, "connection reset"}

\* mongodb::error::ErrorKind, as far as the Launcher tells its values apart
ErrorKinds == {"Io", "ServerSelection", "Authentication"}

Outcome(k, d) == [kind |-> k, detail |-> d]

NoOutcome == Outcome("none", "")

BrokerOutcomes ==
    {Outcome(k, "") : k \in {"Ok", "RuntimeError", "MongoDbOther", "Panic", "Aborted"}}
        \cup {Outcome("DatabaseError", k) : k \in ErrorKinds}

InxListenerOutcomes ==
    {Outcome(k, "") : k \in {"Ok", "ConnectionError", "InvalidAddress",
                             "ParsingAddressFailed", "Read", "Runtime",
                             "MissingBroker", "Panic", "Aborted"}}
        \cup {Outcome("TransportFailed", m) : m \in TransportMessages}

ApiWorkerOutcomes ==
    {Outcome(k, "") : k \in {"Ok", "Result", "Panic", "Aborted"}}

Outcomes(role) ==
    CASE role = "Broker" -> BrokerOutcomes
      [] role = "InxListener" -> InxListenerOutcomes
      [] role = "ApiWorker" -> ApiWorkerOutcomes
      [] OTHER -> {}

Roles == {"Broker", "InxListener", "ApiWorker"}

Unused == [role |-> "none", status |-> "unused", target |-> 0, inx |-> "none"]

\* Report<A>: the actor it is about and its outcome. History, not part of the
\* program: delayed is the broker address the Launcher found closed when it
\* last re-enqueued the Report (0: it never did).
Report(id, role, o, at) ==
    [id |-> id, role |-> role, outcome |-> o, delayed |-> at]

NoEvent == Report(0, "none", NoOutcome, 0)

NoEffect == [report |-> NoEvent, action |-> "none", spawned |-> 0]

Effect(r, a, id) == [report |-> r, action |-> a, spawned |-> id]

----------------------------------------------------------------------------
(* Addresses *)

\* Addr::is_closed: the actor behind the address has left its run loop
IsClosed(acts, id) == acts[id].status # "running"

InMailbox(mb, id) == \E i \in 1..Len(mb) : mb[i].id = id

\* somebody still holds the address or the Report of actor id
Held(acts, mb, ev, addr, id) ==
    \/ addr = id
    \/ ev.id = id
    \/ InMailbox(mb, id)
    \/ \E j \in Ids : acts[j].status = "running" /\ acts[j].target = id

\* a terminated actor whose address and Report nobody holds is gone; its slot
\* is cleared
Collect(acts, mb, ev, addr) ==
    [id \in Ids |->
        IF acts[id].status = "terminated"
        THEN IF Held(acts, mb, ev, addr, id)
             THEN [acts[id] EXCEPT !.target = 0, !.inx = "none"]
             ELSE Unused
        ELSE acts[id]]

FreeIds(acts, role) == {id \in RoleIds(role) : acts[id].status = "unused"}

NewId(acts, role) ==
    CHOOSE id \in FreeIds(acts, role) : \A j \in FreeIds(acts, role) : id <= j

\* RuntimeScope::spawn_actor_supervised: a new running actor at a new address
Spawn(acts, id, role, target, inx) ==
    [acts EXCEPT ![id] = [role |-> role, status |-> "running", target |-> target,
                          inx |-> inx]]

----------------------------------------------------------------------------
\* a result not computed yet
None == <<"none">>

\* the values of the other parts while the Launcher is specified
MerkleIdle ==
    /\ number = None
    /\ power = None
    /\ data = <<>>
    /\ root = None

\* startup has spawned the Launcher, which has not run yet
LauncherStart ==
    /\ lpc = "init"
    /\ event = NoEvent
    /\ waited = 0
    /\ mailbox = <<>>
    /\ actors = [id \in Ids |-> Unused]
    /\ broker_addr = 0
    /\ config = "none"
    /\ shutdown = FALSE
    /\ interrupted = FALSE
    /\ exited = FALSE
    /\ lastEffect = NoEffect

\* no Broker is looked at on its own
NoCall == [op |-> "none"]

BrokerIdle ==
    /\ bstatus = <<>>
    /\ inbox = <<>>
    /\ boutcome = <<>>
    /\ db = {}
    /\ current = 0
    /\ holds = <<>>
    /\ sent = <<>>
    /\ handled = <<>>
    /\ lastCall = NoCall

\* no OutputCollection is set up
LedgerIdle ==
    /\ outputs = {}
    /\ claimed = <<>>

Init ==
    /\ LauncherStart
    /\ MerkleIdle
    /\ BrokerIdle
    /\ LedgerIdle

\* Launcher::init: read the config, build the database handle, spawn the
\* three children
LauncherInit ==
    /\ lpc = "init"
    /\ \E cfg \in InxConfigs, built \in BOOLEAN :
        IF built
        THEN LET b == NewId(actors, "Broker")
                 l == NewId(actors, "InxListener")
                 a == NewId(actors, "ApiWorker")
                 acts == Spawn(Spawn(Spawn(actors, b, "Broker", 0, "none"),
                                     l, "InxListener", b, cfg),
                               a, "ApiWorker", 0, "none")
             IN  /\ actors' = acts
                 /\ broker_addr' = b
                 /\ config' = cfg
                 /\ lpc' = "idle"
        ELSE /\ lpc' = "terminated"
             /\ UNCHANGED <<actors, broker_addr, config>>
    /\ lastEffect' = NoEffect
    /\ UNCHANGED <<event, waited, mailbox, shutdown, interrupted>>
    /\ UNCHANGED <<exited, nonLauncherVars>>

----------------------------------------------------------------------------
(* The children and the runtime around them *)

\* A supervised child leaves its run loop with outcome o: its address is
\* closed from here on and its Report goes to the mailbox of the actor that
\* spawned it (the send fails when that actor is gone). What a child does is
\* outside the Launcher; the outcome is an input. The listener's "missing
\* broker" arises from a send to a closed broker address.
ActorExit(id, o) ==
    /\ actors[id].status = "running"
    /\ o \in Outcomes(actors[id].role)
    /\ o.kind = "MissingBroker" => IsClosed(actors, actors[id].target)
    /\ LET r == Report(id, actors[id].role, o, 0)
           mb == IF lpc = "terminated" THEN mailbox ELSE Append(mailbox, r)
       IN  /\ mailbox' = mb
           /\ actors' = Collect([actors EXCEPT ![id].status = "terminated"],
                                mb, event, broker_addr)
    /\ lastEffect' = NoEffect
    /\ UNCHANGED <<lpc, event, waited, broker_addr, config, shutdown, interrupted>>
    /\ UNCHANGED <<exited, nonLauncherVars>>

\* the Launcher's scope is cancelled: shutdown has been requested of it, or
\* its run loop has returned and its scope is taken down with it
Cancelled == shutdown \/ lpc = "terminated"

\* a child observes the cancellation of the scope it was spawned in and
\* leaves its run loop, aborted
Abort(id) ==
    /\ Cancelled
    /\ ActorExit(id, Outcome("Aborted", ""))

\* as Interrupt, with the signal not passed on to the Launcher
Interrupt_NotForwarded ==
    /\ ~interrupted
    /\ ~exited
    /\ interrupted' = TRUE
    /\ lastEffect' = NoEffect
    /\ UNCHANGED <<lpc, event, waited, mailbox, actors, broker_addr, config, shutdown>>
    /\ UNCHANGED <<exited, nonLauncherVars>>

\* startup's task: ctrl_c, then launcher_addr.shutdown()
Interrupt ==
    /\ ~interrupted
    /\ ~exited
    /\ interrupted' = TRUE
    /\ shutdown' = (shutdown \/ lpc # "terminated")
    /\ lastEffect' = NoEffect
    /\ UNCHANGED <<lpc, event, waited, mailbox, actors, broker_addr, config>>
    /\ UNCHANGED <<exited, nonLauncherVars>>

----------------------------------------------------------------------------
(* The Launcher's run loop *)

\* the run loop takes the next event; it takes none once cancellation has
\* been requested
LauncherReceive ==
    /\ lpc = "idle"
    /\ ~shutdown
    /\ mailbox # <<>>
    /\ event' = Head(mailbox)
    /\ mailbox' = Tail(mailbox)
    /\ lpc' = "handling"
    /\ lastEffect' = NoEffect
    /\ UNCHANGED <<waited, actors, broker_addr, config, shutdown, interrupted>>
    /\ UNCHANGED <<exited, nonLauncherVars>>

\* the run loop ends after cancellation, once the children of its scope are gone
LauncherDrain ==
    /\ lpc = "idle"
    /\ shutdown
    /\ \A id \in Ids : actors[id].status # "running"
    /\ lpc' = "terminated"
    /\ lastEffect' = NoEffect
    /\ UNCHANGED <<event, waited, mailbox, actors, broker_addr, config, shutdown,
                   interrupted>>
    /\ UNCHANGED <<exited, nonLauncherVars>>

\* Runtime::launch(startup) returns, and main with it, once the root scope is
\* drained: the Launcher's task, the only one of the root scope, is complete
\* when its run loop has returned and the tasks of its own scope are complete
RuntimeExit ==
    /\ ~exited
    /\ lpc = "terminated"
    /\ \A id \in Ids : actors[id].status # "running"
    /\ exited' = TRUE
    /\ lastEffect' = NoEffect
    /\ UNCHANGED <<lpc, event, waited, mailbox, actors, broker_addr, config, shutdown,
                   interrupted, nonLauncherVars>>

\* ActorContext::delay(event, None): the event goes to the back of the
\* actor's own mailbox at once
Delay(mb, ev) == Append(mb, ev)

\* as ShutdownAndReturn, with cx.shutdown() left out
ShutdownAndReturn_NotRequested ==
    /\ lpc' = "idle"
    /\ event' = NoEvent
    /\ lastEffect' = Effect(event, "shutdown", 0)
    /\ actors' = Collect(actors, mailbox, NoEvent, broker_addr)
    /\ UNCHANGED <<waited, mailbox, broker_addr, config, shutdown, interrupted>>

\* a handler that ends in cx.shutdown() and Ok(())
ShutdownAndReturn ==
    /\ shutdown' = TRUE
    /\ lpc' = "idle"
    /\ event' = NoEvent
    /\ lastEffect' = Effect(event, "shutdown", 0)
    /\ actors' = Collect(actors, mailbox, NoEvent, broker_addr)
    /\ UNCHANGED <<waited, mailbox, broker_addr, config, interrupted>>

\* as FailAndTerminate, with the error logged and the handler returning Ok(())
FailAndTerminate_Swallowed ==
    /\ lpc' = "idle"
    /\ event' = NoEvent
    /\ waited' = 0
    /\ lastEffect' = Effect(event, "error", 0)
    /\ actors' = Collect(actors, mailbox, NoEvent, broker_addr)
    /\ UNCHANGED <<mailbox, broker_addr, config, shutdown, interrupted>>

\* a handler whose `?` returns the error: the Launcher terminates with it
FailAndTerminate ==
    /\ lpc' = "terminated"
    /\ event' = NoEvent
    /\ waited' = 0
    /\ lastEffect' = Effect(event, "error", 0)
    /\ actors' = Collect(actors, mailbox, NoEvent, broker_addr)
    /\ UNCHANGED <<mailbox, broker_addr, config, shutdown, interrupted>>

\* as SpawnInxListenerAndReturn, with the Report handed back to the mailbox
\* after the spawn
SpawnInxListenerAndReturn_ReportKept ==
    /\ FreeIds(actors, "InxListener") # {}
    /\ LET id == NewId(actors, "InxListener")
       IN  /\ actors' = Collect(Spawn(actors, id, "InxListener", broker_addr, config),
                                Append(mailbox, event), NoEvent, broker_addr)
           /\ lastEffect' = Effect(event, "spawn", id)
    /\ mailbox' = Append(mailbox, event)
    /\ lpc' = "idle"
    /\ event' = NoEvent
    /\ waited' = 0
    /\ UNCHANGED <<broker_addr, config, shutdown, interrupted>>

\* cx.spawn_actor_supervised(InxListener::new(config.inx.clone(), broker_addr.clone()))
\* and Ok(())
SpawnInxListenerAndReturn ==
    /\ FreeIds(actors, "InxListener") # {}
    /\ LET id == NewId(actors, "InxListener")
       IN  /\ actors' = Collect(Spawn(actors, id, "InxListener", broker_addr, config),
                                mailbox, NoEvent, broker_addr)
           /\ lastEffect' = Effect(event, "spawn", id)
    /\ lpc' = "idle"
    /\ event' = NoEvent
    /\ waited' = 0
    /\ UNCHANGED <<mailbox, broker_addr, config, shutdown, interrupted>>

----------------------------------------------------------------------------
(* impl HandleEvent<Report<Broker>> for Launcher *)

\* as BrokerDecision, with every database error taken as recoverable
BrokerDecision_AnyDatabaseError(o) ==
    IF o.kind = "DatabaseError" THEN "rebuild" ELSE "shutdown"

\* the match of the handler: what it does with each outcome
BrokerDecision(o) ==
    CASE o.kind = "Ok" -> "shutdown"
      [] o.kind = "RuntimeError" -> "shutdown"
      [] o.kind = "DatabaseError" ->
            IF o.detail \in {"Io", "ServerSelection"} THEN "rebuild" ELSE "shutdown"
      [] o.kind = "MongoDbOther" -> "shutdown"
      [] o.kind \in {"Panic", "Aborted"} -> "shutdown"

\* as StoreBrokerAddr, with the assignment left out
StoreBrokerAddr_NotStored(old, handle) == old

\* *broker_addr = handle
StoreBrokerAddr(old, handle) == handle

HandleBrokerReport ==
    /\ lpc = "handling"
    /\ event.role = "Broker"
    /\ IF BrokerDecision(event.outcome) = "rebuild"
       THEN /\ lpc' = "building"
            /\ lastEffect' = NoEffect
            /\ UNCHANGED <<event, waited, mailbox, actors, broker_addr, config,
                           shutdown, interrupted>>
       ELSE ShutdownAndReturn
    /\ UNCHANGED <<exited, nonLauncherVars>>

\* config.mongodb.clone().build().await? and the rest of the recoverable arm
BrokerRebuild ==
    /\ lpc = "building"
    /\ event.role = "Broker"
    /\ \E built \in BOOLEAN :
        IF built
        THEN /\ FreeIds(actors, "Broker") # {}
             /\ LET id == NewId(actors, "Broker")
                    addr == StoreBrokerAddr(broker_addr, id)
                IN  /\ actors' = Collect(Spawn(actors, id, "Broker", 0, "none"),
                                         mailbox, NoEvent, addr)
                    /\ broker_addr' = addr
                    /\ lastEffect' = Effect(event, "spawn", id)
             /\ lpc' = "idle"
             /\ event' = NoEvent
             /\ UNCHANGED <<waited, mailbox, config, shutdown, interrupted>>
        ELSE FailAndTerminate
    /\ UNCHANGED <<exited, nonLauncherVars>>

----------------------------------------------------------------------------
(* impl HandleEvent<Report<InxListener>> for Launcher *)

\* as InxListenerDecision, with an address that failed to parse retried like a
\* failed connection
InxListenerDecision_ParseRetried(o, closed) ==
    CASE o.kind \in {"ConnectionError", "ParsingAddressFailed"} -> "sleep"
      [] o.kind = "TransportFailed" ->
            IF o.detail = TransportErrorMessage THEN "spawn" ELSE "shutdown"
      [] o.kind = "MissingBroker" -> IF closed THEN "delay" ELSE "spawn"
      [] OTHER -> "shutdown"

\* as InxListenerDecision, with the "missing broker" arm not looking at the
\* broker address
InxListenerDecision_NoClosedCheck(o, closed) ==
    CASE o.kind = "ConnectionError" -> "sleep"
      [] o.kind = "TransportFailed" ->
            IF o.detail = TransportErrorMessage THEN "spawn" ELSE "shutdown"
      [] o.kind = "MissingBroker" -> "spawn"
      [] OTHER -> "shutdown"

\* as InxListenerDecision, with the "missing broker" arm re-enqueueing whatever
\* the broker address
InxListenerDecision_AlwaysDelay(o, closed) ==
    CASE o.kind = "ConnectionError" -> "sleep"
      [] o.kind = "TransportFailed" ->
            IF o.detail = TransportErrorMessage THEN "spawn" ELSE "shutdown"
      [] o.kind = "MissingBroker" -> "delay"
      [] OTHER -> "shutdown"

\* as InxListenerDecision, with a failed connection re-enqueued instead of
\* retried
InxListenerDecision_ConnectionDelayed(o, closed) ==
    CASE o.kind = "ConnectionError" -> "delay"
      [] o.kind = "TransportFailed" ->
            IF o.detail = TransportErrorMessage THEN "spawn" ELSE "shutdown"
      [] o.kind = "MissingBroker" -> IF closed THEN "delay" ELSE "spawn"
      [] OTHER -> "shutdown"

\* as InxListenerDecision, with every transport failure retried
InxListenerDecision_AnyTransport(o, closed) ==
    CASE o.kind = "ConnectionError" -> "sleep"
      [] o.kind = "TransportFailed" -> "spawn"
      [] o.kind = "MissingBroker" -> IF closed THEN "delay" ELSE "spawn"
      [] OTHER -> "shutdown"

\* the match of the handler; closed is broker_addr.is_closed()
InxListenerDecision(o, closed) ==
    CASE o.kind = "Ok" -> "shutdown"
      [] o.kind = "ConnectionError" -> "sleep"
      [] o.kind = "InvalidAddress" -> "shutdown"
      [] o.kind = "ParsingAddressFailed" -> "shutdown"
      [] o.kind = "TransportFailed" ->
            IF o.detail = TransportErrorMessage THEN "spawn" ELSE "shutdown"
      [] o.kind = "Read" -> "shutdown"
      [] o.kind = "Runtime" -> "shutdown"
      [] o.kind = "MissingBroker" -> IF closed THEN "delay" ELSE "spawn"
      [] o.kind \in {"Panic", "Aborted"} -> "shutdown"

HandleInxListenerReport ==
    /\ lpc = "handling"
    /\ event.role = "InxListener"
    /\ LET d == InxListenerDecision(event.outcome, IsClosed(actors, broker_addr))
       IN  CASE d = "shutdown" -> ShutdownAndReturn
             [] d = "sleep" ->
                    /\ lpc' = "sleeping"
                    /\ waited' = 0
                    /\ lastEffect' = NoEffect
                    /\ UNCHANGED <<event, mailbox, actors, broker_addr, config,
                                   shutdown, interrupted>>
             [] d = "spawn" -> SpawnInxListenerAndReturn
             [] d = "delay" ->
                    /\ mailbox' = Delay(mailbox, [event EXCEPT !.delayed = broker_addr])
                    /\ lpc' = "idle"
                    /\ event' = NoEvent
                    /\ lastEffect' = Effect(event, "delay", 0)
                    /\ UNCHANGED <<waited, actors, broker_addr, config, shutdown,
                                   interrupted>>
    /\ UNCHANGED <<exited, nonLauncherVars>>

\* as SleepElapsed, with the sleep left out
SleepElapsed_NoWait(w) == w >= 0

\* tokio::time::sleep(wait_interval) completes once the interval has passed
SleepElapsed(w) == w >= inx_connection_retry_interval

\* a second passes while the handler sleeps
Tick ==
    /\ lpc = "sleeping"
    /\ waited < inx_connection_retry_interval
    /\ waited' = waited + 1
    /\ lastEffect' = NoEffect
    /\ UNCHANGED <<lpc, event, mailbox, actors, broker_addr, config, shutdown,
                   interrupted>>
    /\ UNCHANGED <<exited, nonLauncherVars>>

\* the ConnectionError arm after its sleep
RetryInxConnection ==
    /\ lpc = "sleeping"
    /\ SleepElapsed(waited)
    /\ SpawnInxListenerAndReturn
    /\ UNCHANGED <<exited, nonLauncherVars>>

----------------------------------------------------------------------------
(* impl HandleEvent<Report<ApiWorker>> for Launcher *)

\* as ApiWorkerDecision, with a worker that ended cleanly started again
ApiWorkerDecision_OkRespawned(o) ==
    CASE o.kind \in {"Ok", "Result"} -> "rebuild"
      [] o.kind \in {"Panic", "Aborted"} -> "shutdown"

\* as ApiWorkerDecision, with a worker that panicked started again
ApiWorkerDecision_PanicRespawned(o) ==
    CASE o.kind = "Ok" -> "shutdown"
      [] o.kind \in {"Result", "Panic"} -> "rebuild"
      [] o.kind = "Aborted" -> "shutdown"

\* the match of the handler
ApiWorkerDecision(o) ==
    CASE o.kind = "Ok" -> "shutdown"
      [] o.kind = "Result" -> "rebuild"
      [] o.kind \in {"Panic", "Aborted"} -> "shutdown"

HandleApiWorkerReport ==
    /\ lpc = "handling"
    /\ event.role = "ApiWorker"
    /\ IF ApiWorkerDecision(event.outcome) = "rebuild"
       THEN /\ lpc' = "building"
            /\ lastEffect' = NoEffect
            /\ UNCHANGED <<event, waited, mailbox, actors, broker_addr, config,
                           shutdown, interrupted>>
       ELSE ShutdownAndReturn
    /\ UNCHANGED <<exited, nonLauncherVars>>

ApiWorkerRebuild ==
    /\ lpc = "building"
    /\ event.role = "ApiWorker"
    /\ \E built \in BOOLEAN :
        IF built
        THEN /\ FreeIds(actors, "ApiWorker") # {}
             /\ LET id == NewId(actors, "ApiWorker")
                IN  /\ actors' = Collect(Spawn(actors, id, "ApiWorker", 0, "none"),
                                         mailbox, NoEvent, broker_addr)
                    /\ lastEffect' = Effect(event, "spawn", id)
             /\ lpc' = "idle"
             /\ event' = NoEvent
             /\ UNCHANGED <<waited, mailbox, broker_addr, config, shutdown,
                            interrupted>>
        ELSE FailAndTerminate
    /\ UNCHANGED <<exited, nonLauncherVars>>

----------------------------------------------------------------------------
Next ==
    \/ LauncherInit
    \/ \E id \in Ids : \E o \in Outcomes(actors[id].role) : ActorExit(id, o)
    \/ \E id \in Ids : Abort(id)
    \/ Interrupt
    \/ LauncherReceive
    \/ LauncherDrain
    \/ RuntimeExit
    \/ HandleBrokerReport
    \/ BrokerRebuild
    \/ HandleInxListenerReport
    \/ Tick
    \/ RetryInxConnection
    \/ HandleApiWorkerReport
    \/ ApiWorkerRebuild

Spec == Init /\ [][Next]_vars

\* The Launcher's task is scheduled: its run loop takes the next event, a
\* handler runs on, a sleep and a rebuild come to an end. Nothing makes a
\* child terminate or the operator interrupt.
LauncherStep ==
    \/ LauncherInit
    \/ LauncherReceive
    \/ LauncherDrain
    \/ HandleBrokerReport
    \/ BrokerRebuild
    \/ HandleInxListenerReport
    \/ Tick
    \/ RetryInxConnection
    \/ HandleApiWorkerReport
    \/ ApiWorkerRebuild

FairSpec == Spec /\ WF_vars(LauncherStep)

\* As FairSpec, and cancellation is observed: a child whose scope is cancelled
\* reaches a check point of its run loop, and the runtime returns once the
\* root scope is drained.
CascadeSpec ==
    /\ Spec
    /\ WF_vars(LauncherStep)
    /\ WF_vars(\E id \in Ids : Abort(id))
    /\ WF_vars(RuntimeExit)

\* never short of an address: the bound on addresses blocks no spawn
SpawnNeverBlocked ==
    lpc \in {"handling", "sleeping", "building"} => FreeIds(actors, event.role) # {}

TypeOK ==
    /\ lpc \in {"init", "idle", "handling", "sleeping", "building", "terminated"}
    /\ waited \in 0..inx_connection_retry_interval
    /\ broker_addr \in 0..MaxActors
    /\ shutdown \in BOOLEAN
    /\ interrupted \in BOOLEAN
    /\ exited \in BOOLEAN
    /\ \A id \in Ids : actors[id].status \in {"unused", "running", "terminated"}
----------------------------------------------------------------------------
(* What a step did, read off the state before and after it *)

\* the actors the step started
Spawned == {id \in Ids : actors[id].status # "running" /\ actors'[id].status = "running"}

\* the step started exactly one actor, of this role, at an address nobody held
SpawnedOne(role) ==
    /\ Cardinality(Spawned) = 1
    /\ \A id \in Spawned :
        /\ actors'[id].role = role
        /\ ~Held(actors, mailbox, event, broker_addr, id)

\* the step is the Launcher's handler leaving its first stretch, the dispatch
\* of the event it took
Dispatches == lpc = "handling" /\ lpc' # "handling"

\* the step ends a handler of the Launcher
Returns == lpc \in {"handling", "sleeping", "building"} /\ lpc' \in {"idle", "terminated"}

SameReport(r, q) == r.id = q.id /\ r.role = q.role /\ r.outcome = q.outcome

IsRecoverableDb(o) == o.kind = "DatabaseError" /\ o.detail \in {"Io", "ServerSelection"}

----------------------------------------------------------------------------
(* C1: when the Launcher handles a Report<Broker> whose outcome is a        *)
(* database error of kind Io or ServerSelection it goes on to rebuild the   *)
(* connection without requesting shutdown, and when the rebuild succeeds it *)
(* spawns exactly one fresh Broker, stores that Broker's address as         *)
(* broker_addr and returns without requesting shutdown.                     *)
C1_RecoverableBrokerRespawned ==
    [][ /\ (Dispatches /\ event.role = "Broker" /\ IsRecoverableDb(event.outcome))
            => /\ lpc' = "building"
               /\ event' = event
               /\ Spawned = {}
               /\ shutdown' = shutdown
        /\ (lpc = "building" /\ event.role = "Broker" /\ lpc' = "idle")
            => /\ IsRecoverableDb(event.outcome)
               /\ SpawnedOne("Broker")
               /\ broker_addr' \in Spawned
               /\ broker_addr' # broker_addr
               /\ shutdown' = shutdown
      ]_vars

C1_Witness ==
    /\ lpc = "idle"
    /\ lastEffect.action = "spawn"
    /\ lastEffect.report.role = "Broker"
    /\ lastEffect.report.outcome = Outcome("DatabaseError", "Io")
    /\ broker_addr = lastEffect.spawned
    /\ broker_addr # lastEffect.report.id
    /\ actors[broker_addr].status = "running"
    /\ actors[broker_addr].role = "Broker"
    /\ ~shutdown

(* C2: for every Report<Broker> whose outcome is not a database error of    *)
(* kind Io or ServerSelection, the handler requests shutdown, spawns        *)
(* nothing, leaves broker_addr as it was and returns.                       *)
C2_OtherBrokerOutcomesShutDown ==
    [][ (Dispatches /\ event.role = "Broker" /\ ~IsRecoverableDb(event.outcome))
            => /\ shutdown'
               /\ lpc' = "idle"
               /\ Spawned = {}
               /\ broker_addr' = broker_addr
      ]_vars

C2_Witness ==
    /\ lpc = "idle"
    /\ lastEffect.action = "shutdown"
    /\ lastEffect.report.role = "Broker"
    /\ lastEffect.report.outcome = Outcome("DatabaseError", "Authentication")
    /\ ~interrupted
    /\ shutdown
    /\ broker_addr = lastEffect.report.id

\* the step is the handler spawning the listener the way every arm of the
\* handler does: one listener, built from config.inx and the stored broker
\* address
SpawnedInxListener ==
    /\ SpawnedOne("InxListener")
    /\ \A id \in Spawned :
        /\ actors'[id].inx = config
        /\ actors'[id].target = broker_addr
    /\ broker_addr' = broker_addr
    /\ config' = config

\* the Launcher takes nothing from its mailbox in the step: what was queued
\* stays queued, in order, at the front
NothingTaken ==
    /\ Len(mailbox') >= Len(mailbox)
    /\ SubSeq(mailbox', 1, Len(mailbox)) = mailbox

(* C3: on a Report<InxListener> with a ConnectionError the handler starts   *)
(* to wait, spawning nothing; while it waits the Launcher takes no event    *)
(* from its mailbox; the wait ends only when the retry interval (5 seconds) *)
(* has passed, and it ends with the spawn of exactly one listener built     *)
(* from the same INX config and the stored broker address. The handler      *)
(* never requests shutdown.                                                 *)
C3_ConnectionErrorRetriedAfterInterval ==
    [][ /\ (Dispatches /\ event.role = "InxListener" /\ event.outcome.kind = "ConnectionError")
            => /\ lpc' = "sleeping"
               /\ waited' = 0
               /\ event' = event
               /\ Spawned = {}
               /\ NothingTaken
               /\ shutdown' = shutdown
        /\ lpc = "sleeping"
            => /\ event.role = "InxListener" /\ event.outcome.kind = "ConnectionError"
               /\ NothingTaken
               /\ broker_addr' = broker_addr
               /\ lpc' \in {"sleeping", "idle"}
               /\ waited' >= waited \/ lpc' = "idle"
               /\ (lpc' = "sleeping" /\ shutdown') => (shutdown \/ interrupted')
        /\ (lpc = "sleeping" /\ (Spawned # {} \/ lpc' # "sleeping"))
            => /\ inx_connection_retry_interval = 5
               /\ waited >= inx_connection_retry_interval
               /\ SpawnedInxListener
               /\ lpc' = "idle"
               /\ shutdown' = shutdown
      ]_vars

C3_Witness ==
    /\ lpc = "idle"
    /\ lastEffect.action = "spawn"
    /\ lastEffect.report.role = "InxListener"
    /\ lastEffect.report.outcome.kind = "ConnectionError"
    /\ actors[lastEffect.spawned].status = "running"
    /\ actors[lastEffect.spawned].role = "InxListener"
    /\ actors[lastEffect.spawned].inx = config
    /\ actors[lastEffect.spawned].target = broker_addr
    /\ mailbox # <<>>
    /\ ~shutdown

(* C4: on a Report<InxListener> with InvalidAddress or ParsingAddressFailed *)
(* the handler requests shutdown and returns; it spawns nothing, whatever   *)
(* the state of the broker.                                                 *)
C4_AddressErrorsShutDown ==
    [][ (Dispatches /\ event.role = "InxListener"
            /\ event.outcome.kind \in {"InvalidAddress", "ParsingAddressFailed"})
            => /\ shutdown'
               /\ lpc' = "idle"
               /\ Spawned = {}
               /\ mailbox' = mailbox
      ]_vars

C4_Witness ==
    /\ lpc = "idle"
    /\ lastEffect.action = "shutdown"
    /\ lastEffect.report.role = "InxListener"
    /\ lastEffect.report.outcome.kind = "ParsingAddressFailed"
    /\ IsClosed(actors, broker_addr)
    /\ ~interrupted
    /\ shutdown

(* C5: on a Report<InxListener> with the "missing broker" outcome the       *)
(* handler looks at the stored broker address: closed, it puts that same    *)
(* Report at the back of its own mailbox and spawns nothing; not closed, it *)
(* spawns exactly one listener holding that address, which is open, and     *)
(* re-enqueues nothing. Either way it returns without requesting shutdown.  *)
C5_MissingBrokerRequeuedOrRespawned ==
    [][ (Dispatches /\ event.role = "InxListener" /\ event.outcome.kind = "MissingBroker")
            => /\ lpc' = "idle"
               /\ shutdown' = shutdown
               /\ broker_addr' = broker_addr
               /\ IF IsClosed(actors, broker_addr)
                  THEN /\ Len(mailbox') = Len(mailbox) + 1
                       /\ SubSeq(mailbox', 1, Len(mailbox)) = mailbox
                       /\ SameReport(mailbox'[Len(mailbox')], event)
                       /\ Spawned = {}
                  ELSE /\ mailbox' = mailbox
                       /\ SpawnedInxListener
                       /\ \A id \in Spawned : ~IsClosed(actors', actors'[id].target)
      ]_vars

\* a Report that was re-enqueued earlier has now led to the spawn
C5_Witness ==
    /\ lpc = "idle"
    /\ lastEffect.action = "spawn"
    /\ lastEffect.report.role = "InxListener"
    /\ lastEffect.report.outcome.kind = "MissingBroker"
    /\ lastEffect.report.delayed # 0
    /\ actors[lastEffect.spawned].target = broker_addr
    /\ ~IsClosed(actors, broker_addr)
    /\ ~shutdown

(* C7: on a Report<InxListener> with a transport failure the handler spawns *)
(* one listener at once, requesting no shutdown, if and only if the message *)
(* of the failure is "transport error"; for every other message it requests *)
(* shutdown and spawns nothing.                                             *)
C7_TransportFailureBySignature ==
    [][ (Dispatches /\ event.role = "InxListener" /\ event.outcome.kind = "TransportFailed")
            => /\ lpc' = "idle"
               /\ mailbox' = mailbox
               /\ IF event.outcome.detail = "transport error"
                  THEN SpawnedInxListener /\ shutdown' = shutdown
                  ELSE Spawned = {} /\ shutdown'
      ]_vars

C7_Witness ==
    /\ lpc = "idle"
    /\ lastEffect.action = "spawn"
    /\ lastEffect.report.role = "InxListener"
    /\ lastEffect.report.outcome = Outcome("TransportFailed", "transport error")
    /\ actors[lastEffect.spawned].status = "running"
    /\ actors[lastEffect.spawned].role = "InxListener"
    /\ ~shutdown

\* the step is the "missing broker" arm re-enqueueing the Report
Requeues ==
    /\ Dispatches
    /\ event.role = "InxListener"
    /\ event.outcome.kind = "MissingBroker"
    /\ IsClosed(actors, broker_addr)


\* the step is the dispatch of a "missing broker" Report that was re-enqueued
\* before
DispatchesRequeued ==
    /\ Dispatches
    /\ event.role = "InxListener"
    /\ event.outcome.kind = "MissingBroker"
    /\ event.delayed # 0

\* the handler has taken the Report<Broker> of broker b, or the Launcher has
\* stopped taking events
BrokerReportTaken(b) ==
    \/ lpc = "handling" /\ event.id = b
    \/ shutdown
    \/ lpc = "terminated"

(* C6, as amended: when a re-enqueued "missing broker" Report is handled    *)
(* and the stored broker address is not closed at that moment, the handler  *)
(* spawns a replacement listener and does not re-enqueue the Report; when   *)
(* the address is closed the Report goes behind everything queued, so that  *)
(* every Report<Broker> in the mailbox is taken by the handler unless       *)
(* shutdown is requested or the Launcher terminates first.                  *)
C6_RequeuedReportResolvedWhenOpen ==
    /\ [][ /\ (DispatchesRequeued /\ ~IsClosed(actors, broker_addr))
               => /\ SpawnedInxListener
                  /\ mailbox' = mailbox
                  /\ lpc' = "idle"
           /\ Requeues
               => /\ mailbox' = Append(mailbox, [event EXCEPT !.delayed = broker_addr])
                  /\ Spawned = {}
         ]_vars
    /\ \A b \in RoleIds("Broker") :
          InMailbox(mailbox, b) ~> BrokerReportTaken(b)

\* the replacement Broker is running when the re-enqueued Report is handled
C6_Witness ==
    /\ lpc = "idle"
    /\ lastEffect.action = "spawn"
    /\ lastEffect.report.outcome.kind = "MissingBroker"
    /\ lastEffect.report.delayed # 0
    /\ lastEffect.report.delayed # broker_addr
    /\ actors[broker_addr].status = "running"
    /\ actors[lastEffect.spawned].target = broker_addr
    /\ mailbox = <<>>

(* C6, as claimed: once a replacement Broker has been spawned and stored    *)
(* after the Report was re-enqueued, the next handling of the Report spawns *)
(* a replacement listener and does not re-enqueue it.                       *)
C6_Original ==
    [][ (DispatchesRequeued /\ broker_addr # event.delayed)
            => /\ SpawnedInxListener
               /\ mailbox' = mailbox
      ]_vars

(* C8, as amended: on a Report<ApiWorker> with Ok, Panic or Aborted the     *)
(* handler requests shutdown, spawns nothing and returns; on an application *)
(* error it rebuilds the connection and, if the rebuild succeeds, spawns    *)
(* exactly one fresh ApiWorker without requesting shutdown; if the rebuild  *)
(* fails it returns the error, the Launcher terminates and nothing is       *)
(* spawned. The stored broker address never changes.                        *)
C8_ApiWorkerRespawnedWhenRebuilt ==
    [][ /\ (Dispatches /\ event.role = "ApiWorker" /\ event.outcome.kind # "Result")
            => /\ event.outcome.kind \in {"Ok", "Panic", "Aborted"}
               /\ shutdown'
               /\ lpc' = "idle"
               /\ Spawned = {}
        /\ (Dispatches /\ event.role = "ApiWorker" /\ event.outcome.kind = "Result")
            => /\ lpc' = "building"
               /\ event' = event
               /\ Spawned = {}
               /\ shutdown' = shutdown
        /\ (lpc = "building" /\ event.role = "ApiWorker" /\ lpc' = "idle")
            => /\ event.outcome.kind = "Result"
               /\ SpawnedOne("ApiWorker")
               /\ shutdown' = shutdown
        /\ (lpc = "building" /\ event.role = "ApiWorker" /\ lpc' = "terminated")
            => /\ Spawned = {}
               /\ shutdown' = shutdown
        /\ (lpc \in {"handling", "building"} /\ event.role = "ApiWorker")
            => broker_addr' = broker_addr
      ]_vars

C8_Witness ==
    /\ lpc = "idle"
    /\ lastEffect.action = "spawn"
    /\ lastEffect.report.role = "ApiWorker"
    /\ lastEffect.report.outcome.kind = "Result"
    /\ actors[lastEffect.spawned].status = "running"
    /\ actors[lastEffect.spawned].role = "ApiWorker"
    /\ lastEffect.spawned # lastEffect.report.id
    /\ ~shutdown

(* C8, as claimed: whenever the handler of a Report<ApiWorker> with an      *)
(* application error ends, it has spawned exactly one fresh ApiWorker and   *)
(* has not requested shutdown.                                              *)
C8_Original ==
    [][ (Returns /\ event.role = "ApiWorker" /\ event.outcome.kind = "Result")
            => /\ SpawnedOne("ApiWorker")
               /\ shutdown' = shutdown
      ]_vars

----------------------------------------------------------------------------
\* the Reports the Launcher holds: those queued and the one in its handler
ReportsHeld ==
    IF lpc \in {"handling", "sleeping", "building"} THEN <<event>> \o mailbox ELSE mailbox

\* the children that terminate in the step
Terminating == {id \in Ids : actors[id].status = "running" /\ actors'[id].status # "running"}

(* C9, as amended: a supervised child that terminates while the Launcher's  *)
(* mailbox is open puts exactly one Report at the back of that mailbox, and *)
(* nothing else puts a Report there except the Launcher re-enqueueing the   *)
(* "missing broker" Report it is handling when it finds the broker address  *)
(* closed; such a Report is then taken and handled again. Reports leave the *)
(* mailbox only from the front, into the handler. At no time does the       *)
(* Launcher hold two Reports of the same child, and every Report it holds   *)
(* is that of a terminated child of the Report's role.                      *)
C9_OneReportPerTermination ==
    /\ [](\A i \in 1..Len(ReportsHeld) :
            /\ actors[ReportsHeld[i].id].status = "terminated"
            /\ actors[ReportsHeld[i].id].role = ReportsHeld[i].role
            /\ \A j \in 1..Len(ReportsHeld) : ReportsHeld[j].id = ReportsHeld[i].id => j = i)
    /\ [][ /\ Cardinality(Terminating) <= 1
           /\ \A id \in Terminating :
                IF lpc = "terminated"
                THEN mailbox' = mailbox
                ELSE /\ Len(mailbox') = Len(mailbox) + 1
                     /\ SubSeq(mailbox', 1, Len(mailbox)) = mailbox
                     /\ mailbox'[Len(mailbox')].id = id
                     /\ mailbox'[Len(mailbox')].role = actors[id].role
                     /\ mailbox'[Len(mailbox')].delayed = 0
           /\ (Terminating = {} /\ Len(mailbox') > Len(mailbox))
                => /\ Requeues
                   /\ mailbox' = Append(mailbox, [event EXCEPT !.delayed = broker_addr])
                   /\ event' = NoEvent
           /\ (Dispatches /\ ~Requeues) => mailbox' = mailbox
           /\ Len(mailbox') < Len(mailbox)
                => /\ lpc = "idle" /\ lpc' = "handling"
                   /\ event' = Head(mailbox)
                   /\ mailbox' = Tail(mailbox)
         ]_vars

\* a re-enqueued Report is in the handler a second time, alone: its child
\* terminated once
C9_Witness ==
    /\ lpc = "handling"
    /\ event.delayed # 0
    /\ actors[event.id].status = "terminated"
    /\ ~InMailbox(mailbox, event.id)
    /\ mailbox # <<>>

(* C9, as claimed: the Launcher consumes every Report exactly once: it      *)
(* never takes from its mailbox a Report it has handled before.             *)
C9_Original == lpc = "handling" => event.delayed = 0

----------------------------------------------------------------------------
\* the outcomes the Launcher answers with a respawn
IsRetried(r) ==
    \/ r.role = "Broker" /\ IsRecoverableDb(r.outcome)
    \/ r.role = "InxListener" /\ r.outcome.kind \in {"ConnectionError", "MissingBroker"}
    \/ r.role = "InxListener" /\ r.outcome = Outcome("TransportFailed", "transport error")
    \/ r.role = "ApiWorker" /\ r.outcome.kind = "Result"

FirstId(role) == CHOOSE id \in RoleIds(role) : \A j \in RoleIds(role) : id <= j

(* C10, as amended: the number of respawns is not bounded: as long as       *)
(* children keep terminating with retried outcomes the Launcher keeps       *)
(* respawning them. Each respawn ends the handling of one Report of a       *)
(* terminated child of the same role with a retried outcome, one respawn    *)
(* per handling; outcomes that are not retried always lead to shutdown and  *)
(* never to a respawn.                                                      *)
C10_OneRespawnPerRetriedReport ==
    [][ /\ (Spawned # {} /\ lpc # "init")
            => /\ Returns
               /\ IsRetried(event)
               /\ SpawnedOne(event.role)
               /\ actors[event.id].status = "terminated"
               /\ event' = NoEvent
        /\ (Dispatches /\ ~IsRetried(event))
            => /\ shutdown'
               /\ lpc' = "idle"
               /\ Spawned = {}
      ]_vars

\* a replacement has itself failed and has been replaced
C10_Witness ==
    /\ lpc = "idle"
    /\ lastEffect.action = "spawn"
    /\ lastEffect.report.role = "InxListener"
    /\ lastEffect.report.outcome.kind = "ConnectionError"
    /\ lastEffect.report.id # FirstId("InxListener")
    /\ lastEffect.spawned = FirstId("InxListener")
    /\ actors[lastEffect.spawned].status = "running"
    /\ ~shutdown

(* C10, as claimed: in every execution the respawns come to an end.         *)
C10_Original == <>[][Spawned = {}]_vars

----------------------------------------------------------------------------
NoChildRunning == \A id \in Ids : actors[id].status # "running"

\* the step is a handler of the Launcher ending in cx.shutdown()
RequestsShutdown == Returns /\ ~shutdown /\ shutdown'

(* C11: once shutdown has been requested of the Launcher, by a handler or   *)
(* from outside, the process exits: every child running then, and every     *)
(* child a handler still spawns, leaves its run loop, and only when none is *)
(* running does the Launcher's run loop return and, after it, the root      *)
(* scope report complete. From the request on the Launcher takes no event   *)
(* from its mailbox; a child that has left its run loop never runs again;   *)
(* nothing is spawned once the Launcher has terminated, and nothing is      *)
(* running once the root scope is complete.                                 *)
C11_CascadingShutdown ==
    /\ shutdown ~> exited
    /\ [](lastEffect.action = "shutdown" => shutdown)
    /\ [](exited => (lpc = "terminated" /\ NoChildRunning))
    /\ [][ /\ shutdown => shutdown'
           /\ shutdown => ~(lpc = "idle" /\ lpc' = "handling")
           /\ (shutdown /\ lpc = "idle" /\ lpc' = "terminated") => NoChildRunning
           /\ (~exited /\ exited') => (lpc = "terminated" /\ NoChildRunning)
           /\ lpc = "terminated" => (lpc' = "terminated" /\ Spawned = {})
           /\ exited => (exited' /\ actors' = actors)
           /\ \A id \in Ids :
                (actors[id].status = "terminated" /\ Held(actors, mailbox, event, broker_addr, id))
                    => actors'[id].status # "running"
         ]_vars

\* a handler requested shutdown, the children still running were aborted,
\* their Reports were queued and never taken, and the process has exited
C11_Witness ==
    /\ exited
    /\ shutdown
    /\ ~interrupted
    /\ lpc = "terminated"
    /\ NoChildRunning
    /\ \A role \in {"InxListener", "ApiWorker"} :
         \E i \in 1..Len(mailbox) :
            mailbox[i].role = role /\ mailbox[i].outcome.kind = "Aborted"

C13_InterruptEndsProcess ==
    /\ interrupted ~> exited
    /\ [](interrupted => (shutdown \/ lpc = "terminated"))
    /\ [][ (~interrupted /\ interrupted')
                => /\ shutdown' = (shutdown \/ lpc # "terminated")
                   /\ lpc' = lpc
                   /\ actors' = actors
                   /\ mailbox' = mailbox
         ]_vars

\* the interrupt arrived while the handler waits out the retry interval:
\* shutdown is requested, the children still run, the wait goes on
C13_Witness ==
    /\ interrupted
    /\ shutdown
    /\ lpc = "sleeping"
    /\ waited < inx_connection_retry_interval
    /\ \E id \in Ids : actors[id].status = "running"

----------------------------------------------------------------------------
\* the running actors of a role
Running(role) == {id \in Ids : actors[id].status = "running" /\ actors[id].role = role}

\* the Reports of a role that the Launcher holds
HeldReports(role) == {i \in 1..Len(ReportsHeld) : ReportsHeld[i].role = role}

(* C20: in every reachable state at most one actor of each role runs, and   *)
(* while one runs the Launcher holds no Report of that role; after init the *)
(* Launcher spawns only at the end of the handling of a Report of a         *)
(* terminated actor of the same role, one actor per handling, and a Report  *)
(* that is re-enqueued spawns nothing in that handling.                     *)
C20_AtMostOneLivePerRole ==
    /\ [](\A role \in Roles :
            Cardinality(Running(role)) + Cardinality(HeldReports(role)) <= 1)
    /\ [][ /\ (Spawned # {} /\ lpc # "init")
               => /\ Returns
                  /\ SpawnedOne(event.role)
                  /\ Running(event.role) = {}
                  /\ actors[event.id].status = "terminated"
                  /\ ~InMailbox(mailbox', event.id)
           /\ Requeues => Spawned = {}
         ]_vars

\* one actor of each role runs, the listener being the one spawned for a
\* "missing broker" Report that had been re-enqueued
C20_Witness ==
    /\ lastEffect.action = "spawn"
    /\ lastEffect.report.outcome.kind = "MissingBroker"
    /\ lastEffect.report.delayed # 0
    /\ Running("InxListener") = {lastEffect.spawned}
    /\ \A role \in Roles : Cardinality(Running(role)) = 1
    /\ mailbox = <<>>
    /\ broker_addr # FirstId("Broker")

----------------------------------------------------------------------------
(***************************************************************************)
(* api/poi/merkle_hasher.rs, specified on its own: largest_power_of_two    *)
(* and MerkleHasher::hash are applied to arguments drawn in MerkleInit.    *)
(***************************************************************************)

\* the arguments of largest_power_of_two go from 2 to MaxNumber and through
\* the neighbours of every power of two up to 2^32 - 1
MaxNumber == 20

\* the longest slice hashed
MaxLen == 7

\* A usize or u32 value exceeds the integers of TLC: it is kept as
\* its two 16-bit halves <<high, low>>, value high * 2^16 + low.
Half == 2^16

Num(m) == <<m \div Half, m % Half>>

Val(x) == x[1] * Half + x[2]

Less(x, y) == x[1] < y[1] \/ (x[1] = y[1] /\ x[2] < y[2])

Twice(x) == <<2 * x[1] + (2 * x[2]) \div Half, (2 * x[2]) % Half>>

\* 2^e
PowerOfTwo(e) == IF e < 16 THEN <<0, 2^e>> ELSE <<2^(e - 16), 0>>

\* n - 1, for n >= 1
Minus1(x) == IF x[2] > 0 THEN <<x[1], x[2] - 1>> ELSE <<x[1] - 1, Half - 1>>

Plus1(x) == IF x[2] < Half - 1 THEN <<x[1], x[2] + 1>> ELSE <<x[1] + 1, 0>>

\* `as u32`: the low 32 bits
AsU32(x) == <<x[1] % Half, x[2]>>

U32Bits == 32

RECURSIVE LeadingZerosOf(_, _)
\* the zero bits in front of the highest set bit of h, h taken as w bits wide
LeadingZerosOf(h, w) ==
    IF w = 0 THEN 0
    ELSE IF h >= 2^(w - 1) THEN 0
    ELSE 1 + LeadingZerosOf(h, w - 1)

\* u32::leading_zeros
leading_zeros(x) ==
    IF x[1] # 0 THEN LeadingZerosOf(x[1], 16) ELSE 16 + LeadingZerosOf(x[2], 16)

bit_length(x) == U32Bits - leading_zeros(x)

\* 1 << e
ShiftLeftOne(e) == IF e < 16 THEN <<0, 2^e>> ELSE <<2^(e - 16), 0>>

\* as largest_power_of_two, with the bit length taken of n instead of n - 1
largest_power_of_two_OfN(x) == ShiftLeftOne(bit_length(AsU32(x)) - 1)

largest_power_of_two(x) == ShiftLeftOne(bit_length(AsU32(Minus1(x))) - 1)

LEAF_HASH_PREFIX == 0

NODE_HASH_PREFIX == 1

\* The digest of a byte string. The hash function is taken as injective: a
\* digest stands for the bytes it was computed from, and is one symbol of
\* the byte string it is fed into.
Blake2b256(bytes) == <<"Blake2b256", bytes>>

hash_empty == Blake2b256(<<>>)

hash_leaf(l) == Blake2b256(<<LEAF_HASH_PREFIX>> \o l)

\* as hash_node, with the two digests fed in the other order
hash_node_Swapped(l, r) == Blake2b256(<<NODE_HASH_PREFIX>> \o <<r>> \o <<l>>)

hash_node(l, r) == Blake2b256(<<NODE_HASH_PREFIX>> \o <<l>> \o <<r>>)

RECURSIVE hash(_)
\* MerkleHasher::hash
hash(slice) ==
    IF Len(slice) = 0 THEN hash_empty
    ELSE IF Len(slice) = 1 THEN hash_leaf(slice[1])
    ELSE LET cut == Val(largest_power_of_two(Num(Len(slice))))
             l == hash(SubSeq(slice, 1, cut))
             r == hash(SubSeq(slice, cut + 1, Len(slice)))
         IN  hash_node(l, r)

\* the leaves: byte strings
Leaves == {<<82, 253>>, <<129>>}

RECURSIVE SlicesOf(_)
\* the slices of a given length
SlicesOf(len) ==
    IF len = 0 THEN {<<>>}
    ELSE {Append(front, leaf) : front \in SlicesOf(len - 1), leaf \in Leaves}

DataInputs == UNION {SlicesOf(len) : len \in 0..MaxLen}

MaxU32 == <<Half - 1, Half - 1>>

NumberInputs ==
    {Num(m) : m \in 2..MaxNumber}
        \cup {PowerOfTwo(e) : e \in 1..31}
        \cup {Minus1(PowerOfTwo(e)) : e \in 2..31}
        \cup {Plus1(PowerOfTwo(e)) : e \in 1..31}
        \cup {MaxU32, Minus1(MaxU32)}

\* one argument is drawn, the other is the smallest there is
MerkleInit ==
    /\ LauncherStart
    /\ BrokerIdle
    /\ LedgerIdle
    /\ \/ number \in NumberInputs /\ data = <<>>
       \/ number = Num(2) /\ data \in DataInputs
    /\ power = None
    /\ root = None

\* a call of largest_power_of_two(number)
LargestPowerOfTwo ==
    /\ power = None
    /\ power' = largest_power_of_two(number)
    /\ UNCHANGED <<number, data, root, nonMerkleVars>>

\* a call of MerkleHasher::hash(data)
Hash ==
    /\ root = None
    /\ root' = hash(data)
    /\ UNCHANGED <<number, power, data, nonMerkleVars>>

MerkleNext == LargestPowerOfTwo \/ Hash

MerkleSpec == MerkleInit /\ [][MerkleNext]_vars

(* C16: for every n from 2 to 2^32 - 1, largest_power_of_two(n) is a power  *)
(* of two k with k < n <= 2k; it is 1 for 2, 2 for 3, 2 for 4 and 2^31 for  *)
(* 2^32 - 1. For a slice of n >= 2 elements the cut it gives leaves both    *)
(* halves non-empty and shorter than the slice.                             *)
C16_LargestPowerOfTwoBelow ==
    /\ power # None =>
        /\ \E e \in 0..31 : power = PowerOfTwo(e)
        /\ Less(power, number)
        /\ ~Less(Twice(power), number)
        /\ number = Num(2) => power = Num(1)
        /\ number = Num(3) => power = Num(2)
        /\ number = Num(4) => power = Num(2)
        /\ number = MaxU32 => power = PowerOfTwo(31)
    /\ Len(data) >= 2 =>
        LET cut == Val(largest_power_of_two(Num(Len(data))))
        IN  0 < cut /\ cut < Len(data)

C16_Witness ==
    /\ number = MaxU32
    /\ power = <<32768, 0>>

\* the cut of the reference: the largest power of two strictly below len
ReferenceCut(len) ==
    CHOOSE c \in 1..len : (\E e \in 0..len : c = 2^e) /\ c < len /\ len <= 2 * c

RECURSIVE MerkleRoot(_)
\* the reference Merkle root
MerkleRoot(slice) ==
    IF slice = <<>> THEN <<"Blake2b256", <<>>>>
    ELSE IF Len(slice) = 1 THEN <<"Blake2b256", <<0>> \o slice[1]>>
    ELSE LET c == ReferenceCut(Len(slice))
         IN  <<"Blake2b256",
               <<1, MerkleRoot(SubSeq(slice, 1, c)),
                    MerkleRoot(SubSeq(slice, c + 1, Len(slice)))>> >>

Swap(slice, i, j) == [slice EXCEPT ![i] = slice[j], ![j] = slice[i]]

(* C17: MerkleHasher::hash(data) is the reference Merkle root of data, for  *)
(* every slice of up to MaxLen leaves: the digest of the empty string for   *)
(* the empty slice, the leaf-prefixed digest of the leaf for a single leaf, *)
(* and otherwise the node-prefixed digest of the roots of the first k and   *)
(* of the remaining leaves, k being largest_power_of_two of the length.     *)
(* With an injective hash function, swapping two different leaves changes   *)
(* the root.                                                                *)
C17_HashIsMerkleRoot ==
    root # None =>
        /\ root = MerkleRoot(data)
        /\ data = <<>> => root = hash_empty
        /\ Len(data) = 1 => root = hash_leaf(data[1])
        /\ Len(data) > 1 =>
            LET cut == Val(largest_power_of_two(Num(Len(data))))
            IN  /\ cut = ReferenceCut(Len(data))
                /\ root = hash_node(hash(SubSeq(data, 1, cut)),
                                    hash(SubSeq(data, cut + 1, Len(data))))
        /\ \A i, j \in 1..Len(data) :
            data[i] # data[j] => hash(Swap(data, i, j)) # root

\* seven leaves, cut 4 + 3, then 2 + 2 and 2 + 1
C17_Witness ==
    /\ root # None
    /\ Len(data) = 7
    /\ data[1] # data[7]
    /\ root[2][1] = NODE_HASH_PREFIX
    /\ root[2][2] = hash(SubSeq(data, 1, 4))
    /\ root[2][3] = hash(SubSeq(data, 5, 7))

----------------------------------------------------------------------------
(***************************************************************************)
(* bin/inx-chronicle/src/broker.rs, specified on its own: the Broker, its  *)
(* mailbox and the addresses it is reached by. The senders stand for the   *)
(* listeners that feed it; the supervisor replaces a Broker as the         *)
(* Launcher does.                                                          *)
(***************************************************************************)

\* the events a sender sends
MaxSends == 2

\* the addresses of the first Broker and of its replacement
BrokerAddrs == {1, 2}

Senders == {"sender_a", "sender_b"}

\* inx::proto::Message and inx::proto::Milestone
EventTypes == {"Message", "Milestone"}

\* An event: its type. History: who sent it, as which of its sends, to which
\* address. Its payload is not kept: whether a record can be read from it is
\* an input of the handler.
Event(s, i, to, type) == [from |-> s, seq |-> i, to |-> to, type |-> type]

\* what upsert_one fails with: a MongoDbError, here one the Launcher takes as
\* recoverable and one it does not
MongoDbErrors == {Outcome("DatabaseError", "Io"), Outcome("DatabaseError", "Authentication")}

\* what upsert_one returns
UpsertResults == {Outcome("Ok", "")} \cup MongoDbErrors

\* MessageRecord::try_from(message), MilestoneRecord::try_from(milestone)
try_from(ev, readable) ==
    IF readable
    THEN [ok |-> TRUE, rec |-> <<ev.type, ev.from, ev.seq>>]
    ELSE [ok |-> FALSE, rec |-> None]

\* as handle_event, with a payload that cannot be read returned as an error
handle_event_UnreadableFails(ev, readable, upsert, store) ==
    LET conv == try_from(ev, readable)
    IN  IF conv.ok
        THEN IF upsert.kind = "Ok"
             THEN [db |-> store \cup {conv.rec}, res |-> Outcome("Ok", "")]
             ELSE [db |-> store, res |-> upsert]
        ELSE [db |-> store, res |-> Outcome("DatabaseError", "Authentication")]

\* The body of both handlers: the record is read from the event and
\* upserted, `?` returning the error of the upsert; an event that cannot be
\* read is logged. upsert is what upsert_one returns if it is called.
handle_event(ev, readable, upsert, store) ==
    LET conv == try_from(ev, readable)
    IN  IF conv.ok
        THEN IF upsert.kind = "Ok"
             THEN [db |-> store \cup {conv.rec}, res |-> Outcome("Ok", "")]
             ELSE [db |-> store, res |-> upsert]
        ELSE [db |-> store, res |-> Outcome("Ok", "")]

BrokerInit ==
    /\ LauncherStart
    /\ MerkleIdle
    /\ LedgerIdle
    /\ bstatus = [b \in BrokerAddrs |-> IF b = 1 THEN "running" ELSE "unused"]
    /\ inbox = [b \in BrokerAddrs |-> <<>>]
    /\ boutcome = [b \in BrokerAddrs |-> NoOutcome]
    /\ db = {}
    /\ current = 1
    /\ holds = [s \in Senders |-> 1]
    /\ sent = [s \in Senders |-> 0]
    /\ handled = [b \in BrokerAddrs |-> [s \in Senders |-> 0]]
    /\ lastCall = NoCall

\* as Send, with an event for a closed address passed on to the latest Broker
Send_Forwarded(s, type) ==
    /\ sent[s] < MaxSends
    /\ LET to == holds[s]
           ev == Event(s, sent[s] + 1, to, type)
       IN  IF bstatus[to] = "running"
           THEN /\ inbox' = [inbox EXCEPT ![to] = Append(@, ev)]
                /\ lastCall' = [op |-> "send", event |-> ev, result |-> "Ok"]
           ELSE /\ inbox' = [inbox EXCEPT ![current] = Append(@, ev)]
                /\ lastCall' = [op |-> "send", event |-> ev, result |-> "Ok"]
    /\ sent' = [sent EXCEPT ![s] = @ + 1]
    /\ UNCHANGED <<bstatus, boutcome, db, current, holds, handled, nonBrokerVars>>

\* as Send, with the event put at the front of the mailbox
Send_AtFront(s, type) ==
    /\ sent[s] < MaxSends
    /\ LET to == holds[s]
           ev == Event(s, sent[s] + 1, to, type)
       IN  IF bstatus[to] = "running"
           THEN /\ inbox' = [inbox EXCEPT ![to] = <<ev>> \o @]
                /\ lastCall' = [op |-> "send", event |-> ev, result |-> "Ok"]
           ELSE /\ inbox' = inbox
                /\ lastCall' = [op |-> "send", event |-> ev, result |-> "MissingReceiver"]
    /\ sent' = [sent EXCEPT ![s] = @ + 1]
    /\ UNCHANGED <<bstatus, boutcome, db, current, holds, handled, nonBrokerVars>>

\* Addr::send: the event goes to the back of the mailbox behind the address;
\* when the actor behind it has left its run loop the send fails with
\* MissingReceiver and the event goes nowhere
Send(s, type) ==
    /\ sent[s] < MaxSends
    /\ LET to == holds[s]
           ev == Event(s, sent[s] + 1, to, type)
       IN  IF bstatus[to] = "running"
           THEN /\ inbox' = [inbox EXCEPT ![to] = Append(@, ev)]
                /\ lastCall' = [op |-> "send", event |-> ev, result |-> "Ok"]
           ELSE /\ inbox' = inbox
                /\ lastCall' = [op |-> "send", event |-> ev, result |-> "MissingReceiver"]
    /\ sent' = [sent EXCEPT ![s] = @ + 1]
    /\ UNCHANGED <<bstatus, boutcome, db, current, holds, handled, nonBrokerVars>>

\* the run loop of Broker b takes the next event, of the given type, and
\* calls the handler of that type; an error returned ends the run loop
Handle(b, type) ==
    /\ bstatus[b] = "running"
    /\ inbox[b] # <<>>
    /\ Head(inbox[b]).type = type
    /\ \E readable \in BOOLEAN, upsert \in UpsertResults :
        LET ev == Head(inbox[b])
            h == handle_event(ev, readable, upsert, db)
        IN  /\ db' = h.db
            /\ IF h.res.kind = "Ok"
               THEN UNCHANGED <<bstatus, boutcome>>
               ELSE /\ bstatus' = [bstatus EXCEPT ![b] = "terminated"]
                    /\ boutcome' = [boutcome EXCEPT ![b] = h.res]
            /\ handled' = [handled EXCEPT ![b][ev.from] = ev.seq]
            /\ lastCall' = [op |-> "handle", event |-> ev, readable |-> readable,
                            upsert |-> IF readable THEN upsert ELSE NoOutcome,
                            result |-> h.res]
    /\ inbox' = [inbox EXCEPT ![b] = Tail(@)]
    /\ UNCHANGED <<current, holds, sent, nonBrokerVars>>

\* impl HandleEvent<inx::proto::Message> for Broker
HandleMessage(b) == Handle(b, "Message")

\* impl HandleEvent<inx::proto::Milestone> for Broker
HandleMilestone(b) == Handle(b, "Milestone")

\* the Broker observes the cancellation of its scope and leaves its run
\* loop; what is left in its mailbox is never handled
BrokerAbort(b) ==
    /\ bstatus[b] = "running"
    /\ bstatus' = [bstatus EXCEPT ![b] = "terminated"]
    /\ boutcome' = [boutcome EXCEPT ![b] = Outcome("Aborted", "")]
    /\ lastCall' = NoCall
    /\ UNCHANGED <<inbox, db, current, holds, sent, handled, nonBrokerVars>>

\* the supervisor answers the Report of the latest Broker as the Launcher
\* does: a recoverable outcome gets a fresh Broker at a fresh address
RespawnBroker ==
    /\ bstatus[current] = "terminated"
    /\ BrokerDecision(boutcome[current]) = "rebuild"
    /\ current + 1 \in BrokerAddrs
    /\ bstatus[current + 1] = "unused"
    /\ bstatus' = [bstatus EXCEPT ![current + 1] = "running"]
    /\ current' = StoreBrokerAddr(current, current + 1)
    /\ lastCall' = NoCall
    /\ UNCHANGED <<inbox, boutcome, db, holds, sent, handled, nonBrokerVars>>

\* a fresh listener is given the stored Broker address: the sender goes on
\* with that address
Rebind(s) ==
    /\ holds[s] # current
    /\ holds' = [holds EXCEPT ![s] = current]
    /\ lastCall' = NoCall
    /\ UNCHANGED <<bstatus, inbox, boutcome, db, current, sent, handled, nonBrokerVars>>

BrokerNext ==
    \/ \E s \in Senders, type \in EventTypes : Send(s, type)
    \/ \E b \in BrokerAddrs : HandleMessage(b)
    \/ \E b \in BrokerAddrs : HandleMilestone(b)
    \/ \E b \in BrokerAddrs : BrokerAbort(b)
    \/ RespawnBroker
    \/ \E s \in Senders : Rebind(s)

BrokerSpec == BrokerInit /\ [][BrokerNext]_vars

(* C14: a Broker that has left its run loop stays terminated: nothing is    *)
(* delivered to its mailbox and it handles nothing any more; a Broker       *)
(* starts only at an address never used before, with an empty mailbox. A    *)
(* send to the address of a terminated Broker fails with MissingReceiver,   *)
(* changes no mailbox and leaves the sender as it was, free to send again;  *)
(* a send to a running Broker puts the event at the back of that Broker's   *)
(* mailbox and of no other. Every event in a mailbox was sent to the        *)
(* address of that mailbox: nothing sent to the old address reaches the     *)
(* replacement.                                                             *)
C14_ClosedAddressSafety ==
    /\ [](\A b \in BrokerAddrs : \A i \in 1..Len(inbox[b]) : inbox[b][i].to = b)
    /\ [][ /\ \A b \in BrokerAddrs :
                bstatus[b] = "terminated"
                    => /\ bstatus'[b] = "terminated"
                       /\ inbox'[b] = inbox[b]
                       /\ handled'[b] = handled[b]
           /\ \A b \in BrokerAddrs :
                (bstatus[b] # "running" /\ bstatus'[b] = "running")
                    => /\ bstatus[b] = "unused"
                       /\ inbox'[b] = <<>>
                       /\ \A s \in Senders : holds[s] # b
           /\ lastCall'.op = "send"
                => LET ev == lastCall'.event
                   IN  /\ ev.to = holds[ev.from]
                       /\ holds' = holds
                       /\ sent'[ev.from] = sent[ev.from] + 1
                       /\ IF bstatus[ev.to] = "running"
                          THEN /\ lastCall'.result = "Ok"
                               /\ inbox' = [inbox EXCEPT ![ev.to] = Append(@, ev)]
                          ELSE /\ lastCall'.result = "MissingReceiver"
                               /\ inbox' = inbox
         ]_vars

\* a sender still holding the address of the terminated first Broker has
\* sent to it, twice, while the replacement runs: both sends failed and the
\* replacement has received nothing
C14_Witness ==
    /\ lastCall.op = "send"
    /\ lastCall.result = "MissingReceiver"
    /\ lastCall.event.to = 1
    /\ lastCall.event.seq = 2
    /\ holds[lastCall.event.from] = 1
    /\ bstatus[1] = "terminated"
    /\ bstatus[2] = "running"
    /\ current = 2
    /\ inbox[2] = <<>>
    /\ handled[2] = [s \in Senders |-> 0]

\* the events of one sender in a mailbox
OfSender(q, s) == SelectSeq(q, LAMBDA e : e.from = s)

Ascending(q) == \A i, j \in 1..Len(q) : i < j => q[i].seq < q[j].seq

(* C15: the events one sender has sent to one address wait in that mailbox  *)
(* in the order of their sending, behind every event of that sender the     *)
(* Broker has handled; a handler is always called with the event at the     *)
(* front of the mailbox, which of its sender's events is the earliest not   *)
(* handled yet. This holds however the sends of the other sender fall in    *)
(* between.                                                                 *)
C15_MailboxFifo ==
    /\ [](\A b \in BrokerAddrs, s \in Senders :
            LET q == OfSender(inbox[b], s)
            IN  /\ Ascending(q)
                /\ \A i \in 1..Len(q) : q[i].seq > handled[b][s])
    /\ [][ lastCall'.op = "handle"
            => LET ev == lastCall'.event
                   b == ev.to
               IN  /\ inbox[b] # <<>>
                   /\ ev = Head(inbox[b])
                   /\ inbox'[b] = Tail(inbox[b])
                   /\ ev.seq > handled[b][ev.from]
                   /\ handled'[b][ev.from] = ev.seq
                   /\ \A i \in 1..Len(inbox'[b]) :
                        inbox'[b][i].from = ev.from => inbox'[b][i].seq > ev.seq
         ]_vars

\* the second event of a sender is handled after its first, an event of the
\* other sender having been sent in between and handled in between
C15_Witness ==
    /\ lastCall.op = "handle"
    /\ lastCall.event.from = "sender_a"
    /\ lastCall.event.seq = 2
    /\ handled[1] = [s \in Senders |-> IF s = "sender_a" THEN 2 ELSE 1]
    /\ Len(inbox[1]) = 1
    /\ inbox[1][1].from = "sender_b"
    /\ inbox[1][1].seq = 2

(* C19: a handler of the Broker, for a block or for a milestone, stores     *)
(* nothing and returns Ok when no record can be read from the event, and    *)
(* the Broker keeps running; when the record is read and the upsert fails   *)
(* it stores nothing and returns that error, and the Broker terminates with *)
(* it, an outcome the Launcher handles as a Report<Broker>; when the upsert *)
(* succeeds the record is stored and the Broker keeps running. In handling  *)
(* its events the Broker terminates in no other way: a terminated Broker    *)
(* has the error of an upsert as its outcome, unless it was aborted.        *)
C19_BrokerEndsOnPersistenceFailure ==
    /\ [](\A b \in BrokerAddrs :
            bstatus[b] = "terminated"
                => /\ boutcome[b] \in MongoDbErrors \cup {Outcome("Aborted", "")}
                   /\ boutcome[b] \in BrokerOutcomes)
    /\ [][ lastCall'.op = "handle"
            => LET c == lastCall'
                   b == c.event.to
                   rec == <<c.event.type, c.event.from, c.event.seq>>
               IN  /\ bstatus[b] = "running"
                   /\ c.event.type \in EventTypes
                   /\ ~c.readable
                        => /\ c.result.kind = "Ok"
                           /\ db' = db
                           /\ bstatus'[b] = "running"
                   /\ (c.readable /\ c.upsert.kind # "Ok")
                        => /\ c.result = c.upsert
                           /\ c.upsert \in MongoDbErrors
                           /\ db' = db
                           /\ bstatus'[b] = "terminated"
                           /\ boutcome'[b] = c.upsert
                   /\ (c.readable /\ c.upsert.kind = "Ok")
                        => /\ c.result.kind = "Ok"
                           /\ rec \notin db
                           /\ db' = db \cup {rec}
                           /\ bstatus'[b] = "running"
                   /\ bstatus'[b] = "running" => boutcome'[b] = NoOutcome
         ]_vars

\* a milestone that could not be read was passed over, nothing stored for
\* it, and the Broker runs on with the next event waiting
C19_Witness ==
    /\ lastCall.op = "handle"
    /\ lastCall.event.type = "Milestone"
    /\ ~lastCall.readable
    /\ lastCall.result.kind = "Ok"
    /\ bstatus[1] = "running"
    /\ inbox[1] # <<>>
    /\ db # {}
    /\ <<"Milestone", lastCall.event.from, lastCall.event.seq>> \notin db

(***************************************************************************)
(* tests/outputs_claiming.rs, specified on its own: the OutputCollection   *)
(* as test_claiming uses it. The outputs and the milestone of their        *)
(* booking are those of the test; which of them are spent, and at which    *)
(* milestones, is the test's choice or any other.                          *)
(***************************************************************************)

\* the largest milestone index outputs are spent at and analytics asked for
MaxMilestoneIndex == 5

\* (1..=5): the outputs of the test, by amount
GenesisAmounts == 1..5

\* booked: milestone_index: 0.into()
GenesisMilestone == 0

\* .take(4): we spent only the first 4 outputs
Taken == 4

MilestoneIndexes == 0..MaxMilestoneIndex

\* LedgerOutput of amount i; OutputId::rand() is an id no other output has.
\* spent is the spending milestone, absent while the output is unspent.
LedgerOutput(i) ==
    [output_id |-> i, amount |-> i, booked |-> GenesisMilestone, spent |-> <<>>]

unspent_outputs == {LedgerOutput(i) : i \in GenesisAmounts}

\* LedgerSpent { output, spent_metadata: spent.milestone_index }
LedgerSpent(output, index) == [output EXCEPT !.spent = <<index>>]

\* the first 4 outputs, each spent at the milestone of its amount
spent_outputs ==
    {LedgerSpent(output, output.amount) :
        output \in {o \in unspent_outputs : o.output_id <= Taken}}

\* OutputCollection::insert_unspent_outputs
insert_unspent_outputs(coll, outs) == coll \cup outs

\* OutputCollection::update_spent_outputs: the documents of the outputs get
\* their spent metadata
update_spent_outputs(coll, spents) ==
    {IF \E sp \in spents : sp.output_id = o.output_id
     THEN CHOOSE sp \in spents : sp.output_id = o.output_id
     ELSE o : o \in coll}

RECURSIVE SumOfAmounts(_)
SumOfAmounts(outs) ==
    IF outs = {}
    THEN 0
    ELSE LET o == CHOOSE x \in outs : TRUE
         IN  o.amount + SumOfAmounts(outs \ {o})

\* as get_claimed_token_analytics, with the outputs spent before the index
get_claimed_token_analytics_Before(coll, index) ==
    LET hits == {o \in coll : /\ o.booked = GenesisMilestone
                              /\ o.spent # <<>>
                              /\ o.spent[1] < index}
    IN  [claimed_count |-> Cardinality(hits), claimed_value |-> SumOfAmounts(hits)]

\* OutputCollection::get_claimed_token_analytics(index): count and summed
\* amount of the outputs booked at genesis and spent at or before the index
get_claimed_token_analytics(coll, index) ==
    LET hits == {o \in coll : /\ o.booked = GenesisMilestone
                              /\ o.spent # <<>>
                              /\ o.spent[1] <= index}
    IN  [claimed_count |-> Cardinality(hits), claimed_value |-> SumOfAmounts(hits)]

\* the ways of marking some of the outputs spent: the test's, or any outputs
\* at any milestones after genesis
SpentInputs ==
    {spent_outputs} \cup
    UNION {{{LedgerSpent(o, at[o]) : o \in some} :
                at \in [some -> 1..MaxMilestoneIndex]} :
           some \in SUBSET unspent_outputs}

\* setup_collection: the collection is empty
LedgerInit ==
    /\ LauncherStart
    /\ MerkleIdle
    /\ BrokerIdle
    /\ outputs = {}
    /\ claimed = <<>>

InsertUnspentOutputs ==
    /\ outputs = {}
    /\ outputs' = insert_unspent_outputs(outputs, unspent_outputs)
    /\ claimed' = <<>>
    /\ UNCHANGED nonLedgerVars

UpdateSpentOutputs ==
    /\ outputs # {}
    /\ \A o \in outputs : o.spent = <<>>
    /\ \E spents \in SpentInputs :
            outputs' = update_spent_outputs(outputs, spents)
    /\ claimed' = <<>>
    /\ UNCHANGED nonLedgerVars

GetClaimedTokenAnalytics ==
    /\ \E index \in MilestoneIndexes :
            claimed' = <<[index |-> index]
                            @@ get_claimed_token_analytics(outputs, index)>>
    /\ UNCHANGED <<outputs, nonLedgerVars>>

LedgerNext ==
    \/ InsertUnspentOutputs
    \/ UpdateSpentOutputs
    \/ GetClaimedTokenAnalytics

LedgerSpec == LedgerInit /\ [][LedgerNext]_vars

\* the collection of test_claiming when it asks for the analytics
TestLedger ==
    update_spent_outputs(insert_unspent_outputs({}, unspent_outputs), spent_outputs)

\* what test_claiming asserts of the analytics at the indexes 1 to 5
ExpectedCount == <<1, 2, 3, 4, 4>>

ExpectedValue == <<1, 3, 6, 10, 10>>

\* the outputs spent at a milestone, and those spent up to it, told from the
\* collection output by output
SpentAt(coll, i) == {o \in coll : o.spent = <<i>>}

RECURSIVE CountUpTo(_, _)
CountUpTo(coll, i) ==
    IF i < 0 THEN 0 ELSE CountUpTo(coll, i - 1) + Cardinality(SpentAt(coll, i))

RECURSIVE ValueUpTo(_, _)
ValueUpTo(coll, i) ==
    IF i < 0
    THEN 0
    ELSE ValueUpTo(coll, i - 1)
            + (IF SpentAt(coll, i) = {} THEN 0
               ELSE SumOfAmounts(SpentAt(coll, i)))

\* the last milestone an output of the collection is spent at, genesis if
\* none is spent
LastSpending(coll) ==
    LET at == {o.spent[1] : o \in {x \in coll : x.spent # <<>>}}
    IN  IF at = {} THEN GenesisMilestone ELSE CHOOSE m \in at : \A n \in at : n <= m

----------------------------------------------------------------------------
(* Shutdown of the Launcher and its spawning, under Spec *)

\* the step requests shutdown of the Launcher: the interrupt is passed on to
\* it, or one of its handlers ends in cx.shutdown()
ShutdownRequested ==
    \/ ~interrupted /\ interrupted'
    \/ Returns /\ lastEffect'.action = "shutdown"

\* a request made when shutdown was requested before changes nothing a
\* single request would not: shutdown stays requested, nothing is spawned,
\* no event is added to the mailbox, the broker address is the same
RepeatedShutdownIsOne ==
    [][ (shutdown /\ ShutdownRequested)
            => /\ shutdown'
               /\ Spawned = {}
               /\ mailbox' = mailbox
               /\ broker_addr' = broker_addr
      ]_vars

\* with shutdown requested the run loop takes no event, and children are
\* spawned only by what was running when the request came: init, or the
\* handler of the Report taken before, which spawns one child and returns
SpawnAfterShutdownByRunningHandler ==
    [][ shutdown
            => /\ ~(lpc = "idle" /\ lpc' = "handling")
               /\ Spawned # {}
                    => /\ lpc \in {"init", "handling", "sleeping", "building"}
                       /\ lpc' = "idle"
                       /\ lpc # "init" => Cardinality(Spawned) = 1
      ]_vars

(* C21, as claimed: once shutdown of the Launcher has been requested, by a  *)
(* handler of its own or by the interrupt, also by an interrupt that comes  *)
(* while a handler is in its retry wait or in a rebuild, no step of the     *)
(* Launcher starts a child; and a request made after the first changes      *)
(* nothing further.                                                         *)
C21_NoSpawnAfterShutdown ==
    [][ /\ shutdown => Spawned = {}
        /\ (shutdown /\ ShutdownRequested)
                => /\ shutdown'
                   /\ mailbox' = mailbox
                   /\ broker_addr' = broker_addr
      ]_vars

\* the interrupt has come during the retry wait of the ConnectionError arm,
\* the wait has run out and the handler has spawned a listener all the same
C21_SpawnedAfterInterrupt ==
    /\ shutdown
    /\ interrupted
    /\ lastEffect.action = "spawn"
    /\ lastEffect.report.role = "InxListener"
    /\ lastEffect.report.outcome.kind = "ConnectionError"
    /\ actors[lastEffect.spawned].status = "running"
    /\ lpc = "idle"
====
